---- MODULE Spec2Model ----
(***************************************************************************)
(* Puzzle/inventory logic of the escape-room clue system                   *)
(* (clue-system.js): Inventory, GameState, TriggerCondition, the           *)
(* PasswordSystem combination lock and the ClueSystem engine that          *)
(* dispatches interactions and executes their action lists.                *)
(*                                                                         *)
(* Strings that the source writes in Chinese are written here as ASCII     *)
(* tokens; each token stands for exactly one source literal (the source    *)
(* line is given where the token is introduced).                           *)
(***************************************************************************)
EXTENDS Integers, Sequences, FiniteSets, TLC

VARIABLES
    items,            \* Inventory.items: Map item id -> Item
    states,           \* GameState.states: Map key -> value
    flags,            \* GameState.flags: Map flag -> value
    enteredPassword,  \* PasswordSystem.enteredPassword
    attemptsLeft,     \* PasswordSystem.attemptsLeft
    locked,           \* PasswordSystem.locked
    executed,         \* Interaction.executed, per interaction id
    scene,            \* ClueSystem.sceneObjects: Map object id -> interactions
    result,           \* the outcome returned by the last call
    last,             \* the last call: [op, arg]
    trace,            \* outcomes of the actions run by the last call, in order
    wrongStreak,      \* submissions in a row that did not succeed (history)
    before,           \* the lock's attemptsLeft and locked before the last call
    walk              \* progress along WinSequence (history)

vars == <<items, states, flags, enteredPassword, attemptsLeft, locked,
          executed, scene, result, last, trace, wrongStreak, before, walk>>

lockVars == <<enteredPassword, attemptsLeft, locked>>
storeVars == <<items, states, flags>>

----------------------------------------------------------------------------
(* Program constants *)

\* Inventory.maxSlots
maxSlots == 20
\* PasswordSystem.maxAttempts
maxAttempts == 3
\* new PasswordSystem('9427')
correctPassword == "9427"

----------------------------------------------------------------------------
(* Outcomes: the object literals the methods return.  A field the source   *)
(* leaves out is "none" (locked: FALSE, progress: -1, payload: <<>>).      *)

NoOutcome ==
    [success |-> FALSE, type |-> "none", message |-> "none", title |-> "none",
     hint |-> "none", item |-> "none", locked |-> FALSE, progress |-> -1,
     payload |-> <<>>]

Fail(message) == [NoOutcome EXCEPT !.message = message]
Typed(type) == [NoOutcome EXCEPT !.success = TRUE, !.type = type]

----------------------------------------------------------------------------
(* Item catalog: ClueSystem.initGameData *)

Item(id, canCollect, consumable) ==
    [id |-> id, canCollect |-> canCollect, collected |-> FALSE,
     consumable |-> consumable, usesLeft |-> 1]

ItemIds == {"small_key", "golden_key", "crumpled_paper", "diary"}

Catalog ==
    [id \in ItemIds |->
        Item(id, TRUE, id \in {"small_key", "golden_key"})]

\* Item.clone copies every field
clone(item) ==
    [id |-> item.id, canCollect |-> item.canCollect,
     collected |-> item.collected, consumable |-> item.consumable,
     usesLeft |-> item.usesLeft]

----------------------------------------------------------------------------
(* Inventory: a Map from item id to Item, as a function on the held ids *)

hasItem(inv, itemId) == itemId \in DOMAIN inv

getItemCount(inv) == Cardinality(DOMAIN inv)

MapSet(m, k, v) == [x \in (DOMAIN m) \cup {k} |-> IF x = k THEN v ELSE m[x]]
MapDelete(m, k) == [x \in (DOMAIN m) \ {k} |-> m[x]]
EmptyMap == [x \in {} |-> TRUE]

\* addItem that keeps the last slot free (maxSlots - 1 for maxSlots)
addItem_oneSlotShort(inv, item) ==
    IF getItemCount(inv) >= maxSlots - 1
    THEN [ok |-> FALSE, inv |-> inv]
    ELSE IF hasItem(inv, item.id)
            /\ inv[item.id].canCollect /\ ~inv[item.id].consumable
         THEN [ok |-> FALSE, inv |-> inv]
         ELSE [ok |-> TRUE, inv |-> MapSet(inv, item.id, item)]

\* addItem with the capacity test off by one (> for >=)
addItem_oneSlotOver(inv, item) ==
    IF getItemCount(inv) > maxSlots
    THEN [ok |-> FALSE, inv |-> inv]
    ELSE IF hasItem(inv, item.id)
            /\ inv[item.id].canCollect /\ ~inv[item.id].consumable
         THEN [ok |-> FALSE, inv |-> inv]
         ELSE [ok |-> TRUE, inv |-> MapSet(inv, item.id, item)]

\* Inventory.addItem: [ok, inv]
addItem(inv, item) ==
    IF getItemCount(inv) >= maxSlots
    THEN [ok |-> FALSE, inv |-> inv]
    ELSE IF hasItem(inv, item.id)
            /\ inv[item.id].canCollect /\ ~inv[item.id].consumable
         THEN [ok |-> FALSE, inv |-> inv]
         ELSE [ok |-> TRUE, inv |-> MapSet(inv, item.id, item)]

\* removeItem that reports the removal of an item it does not hold
removeItem_absentReported(inv, itemId) ==
    [ok |-> TRUE, inv |-> MapDelete(inv, itemId)]

\* Inventory.removeItem: [ok, inv]
removeItem(inv, itemId) ==
    IF hasItem(inv, itemId)
    THEN [ok |-> TRUE, inv |-> MapDelete(inv, itemId)]
    ELSE [ok |-> FALSE, inv |-> inv]

----------------------------------------------------------------------------
(* GameState *)

\* GameState.get: states.get(key) || false
get(st, key) == IF key \in DOMAIN st THEN st[key] ELSE FALSE

\* GameState.hasFlag: flags.get(flag) || false
hasFlag(fl, flag) == IF flag \in DOMAIN fl THEN fl[flag] ELSE FALSE

----------------------------------------------------------------------------
(* PasswordSystem.  A lock state is [entered, attempts, locked]; each      *)
(* method gives [lock, out].                                               *)

Lock(e, a, l) == [entered |-> e, attempts |-> a, locked |-> l]

\* a lock whose reset() does nothing while it is locked
reset_notWhileLocked(lock) ==
    IF lock.locked THEN lock ELSE Lock("", maxAttempts, FALSE)

\* reset that forgets to unlock
reset_keepsLocked(lock) == Lock("", maxAttempts, lock.locked)

\* reset that forgets to restore the attempts
reset_keepsAttempts(lock) == Lock("", lock.attempts, FALSE)

\* PasswordSystem.reset
reset(lock) == Lock("", maxAttempts, FALSE)

\* the template literal of line 325, by the digit it prints
WrongMessage(n) == "password_wrong_left_" \o ToString(n)

\* enterDigit with the length test off by one (<= for <)
enterDigit_oneTooMany(lock, digit) ==
    IF lock.locked
    THEN [lock |-> lock, out |-> Fail("lock_locked")]
    ELSE IF Len(lock.entered) <= Len(correctPassword)
         THEN LET e == lock.entered \o digit
              IN  [lock |-> [lock EXCEPT !.entered = e],
                   out |-> [NoOutcome EXCEPT !.success = TRUE,
                                             !.progress = Len(e)]]
         ELSE [lock |-> lock, out |-> Fail("password_full")]

\* PasswordSystem.enterDigit
enterDigit(lock, digit) ==
    IF lock.locked
    THEN [lock |-> lock, out |-> Fail("lock_locked")]
    ELSE IF Len(lock.entered) < Len(correctPassword)
         THEN LET e == lock.entered \o digit
              IN  [lock |-> [lock EXCEPT !.entered = e],
                   out |-> [NoOutcome EXCEPT !.success = TRUE,
                                             !.progress = Len(e)]]
         ELSE [lock |-> lock, out |-> Fail("password_full")]

\* submitPassword that leaves the entered digits in place when they are wrong
PasswordSystem_submitPassword_keepsEntered(lock) ==
    IF lock.locked
    THEN [lock |-> lock, out |-> Fail("lock_locked")]
    ELSE IF lock.entered = correctPassword
         THEN [lock |-> reset(lock),
               out |-> [NoOutcome EXCEPT !.success = TRUE,
                                         !.message = "password_correct"]]
         ELSE LET a == lock.attempts - 1
              IN  IF a <= 0
                  THEN [lock |-> Lock(lock.entered, a, TRUE),
                        out |-> [Fail("password_wrong_now_locked")
                                    EXCEPT !.locked = TRUE]]
                  ELSE [lock |-> Lock(lock.entered, a, FALSE),
                        out |-> Fail(WrongMessage(a))]

\* submitPassword with the lockout test off by one (a < 0 for a <= 0)
PasswordSystem_submitPassword_lateLock(lock) ==
    IF lock.locked
    THEN [lock |-> lock, out |-> Fail("lock_locked")]
    ELSE IF lock.entered = correctPassword
         THEN [lock |-> reset(lock),
               out |-> [NoOutcome EXCEPT !.success = TRUE,
                                         !.message = "password_correct"]]
         ELSE LET a == lock.attempts - 1
              IN  IF a < 0
                  THEN [lock |-> Lock("", a, TRUE),
                        out |-> [Fail("password_wrong_now_locked")
                                    EXCEPT !.locked = TRUE]]
                  ELSE [lock |-> Lock("", a, FALSE),
                        out |-> Fail(WrongMessage(a))]

\* PasswordSystem.submitPassword
PasswordSystem_submitPassword(lock) ==
    IF lock.locked
    THEN [lock |-> lock, out |-> Fail("lock_locked")]
    ELSE IF lock.entered = correctPassword
         THEN [lock |-> reset(lock),
               out |-> [NoOutcome EXCEPT !.success = TRUE,
                                         !.message = "password_correct"]]
         ELSE LET a == lock.attempts - 1
              IN  IF a <= 0
                  THEN [lock |-> Lock("", a, TRUE),
                        out |-> [Fail("password_wrong_now_locked")
                                    EXCEPT !.locked = TRUE]]
                  ELSE [lock |-> Lock("", a, FALSE),
                        out |-> Fail(WrongMessage(a))]

\* PasswordSystem.getDisplay: one mask character per entered character
getDisplay(lock) == [i \in 1..Len(lock.entered) |-> "*"]

----------------------------------------------------------------------------
(* TriggerCondition *)

TriggerCondition(type, targetItemId, requiredState) ==
    [type |-> type, targetItemId |-> targetItemId,
     requiredState |-> requiredState]

\* evaluate with the 'no_item' case falling through to 'always'
evaluate_noItemIgnored(condition, inv, st) ==
    CASE condition.type = "has_item" -> hasItem(inv, condition.targetItemId)
      [] condition.type = "no_item" -> TRUE
      [] condition.type = "state_equals" ->
            get(st, condition.requiredState) = TRUE
      [] condition.type = "always" -> TRUE
      [] OTHER -> FALSE

\* TriggerCondition.evaluate
evaluate(condition, inv, st) ==
    CASE condition.type = "has_item" -> hasItem(inv, condition.targetItemId)
      [] condition.type = "no_item" -> ~hasItem(inv, condition.targetItemId)
      [] condition.type = "state_equals" ->
            get(st, condition.requiredState) = TRUE
      [] condition.type = "always" -> TRUE
      [] OTHER -> FALSE

\* Interaction.canExecute: conditions.every(...)
canExecute(interaction, inv, st) ==
    \A i \in 1..Len(interaction.conditions) :
        evaluate(interaction.conditions[i], inv, st)

----------------------------------------------------------------------------
(* InteractionAction: [type, payload].  The payload is one record shape    *)
(* for every action type; a give_item / consume_item payload (an item id   *)
(* in the source) is its itemId field.                                     *)

NoPayload ==
    [itemId |-> "none", failMessage |-> "none", failHint |-> "none",
     title |-> "none", message |-> "none", hint |-> "none",
     key |-> "none", value |-> FALSE,
     correctPassword |-> "none", successActions |-> <<>>]

InteractionAction(type, payload) == [type |-> type, payload |-> payload]

GiveItem(itemId) ==
    InteractionAction("give_item", [NoPayload EXCEPT !.itemId = itemId])
ConsumeItem(itemId) ==
    InteractionAction("consume_item", [NoPayload EXCEPT !.itemId = itemId])
RequireItem(itemId, failMessage, failHint) ==
    InteractionAction("require_item",
        [NoPayload EXCEPT !.itemId = itemId, !.failMessage = failMessage,
                          !.failHint = failHint])
ShowMessage(title, message, hint) ==
    InteractionAction("show_message",
        [NoPayload EXCEPT !.title = title, !.message = message,
                          !.hint = hint])
SetState(key, value) ==
    InteractionAction("set_state",
        [NoPayload EXCEPT !.key = key, !.value = value])
CheckPassword(password, successActions, failMessage, failHint) ==
    InteractionAction("check_password",
        [NoPayload EXCEPT !.correctPassword = password,
                          !.successActions = successActions,
                          !.failMessage = failMessage,
                          !.failHint = failHint])

----------------------------------------------------------------------------
(* Content: ClueSystem.initInteractions.  Each scene object holds the      *)
(* list of its interactions.                                               *)

Interaction(id, conditions, actions) ==
    [id |-> id, conditions |-> conditions, actions |-> actions]

Always == TriggerCondition("always", "none", "none")

trashInteraction ==
    Interaction("trash_search", <<Always>>,
        <<GiveItem("crumpled_paper"),
          ShowMessage("title_found_clue", "msg_found_paper", "hint_paper")>>)

plantInteraction ==
    Interaction("plant_check",
        <<TriggerCondition("no_item", "small_key", "none")>>,
        <<GiveItem("small_key"),
          ShowMessage("title_found_key", "msg_found_key", "hint_key")>>)

drawerInteraction ==
    Interaction("drawer_open", <<Always>>,
        <<RequireItem("small_key", "need_small_key", "hint_drawer_locked"),
          ConsumeItem("small_key"),
          GiveItem("diary"),
          ShowMessage("title_got_diary", "msg_got_diary", "hint_reversed")>>)

safeSuccessActions ==
    <<GiveItem("golden_key"),
      ShowMessage("title_safe_opened", "msg_safe_opened", "hint_go_door")>>

safeInteraction ==
    Interaction("safe_open", <<Always>>,
        <<CheckPassword("9427", safeSuccessActions,
                        "wrong_password", "hint_think_again")>>)

doorInteraction ==
    Interaction("door_unlock", <<Always>>,
        <<RequireItem("golden_key", "need_golden_key", "hint_door_locked"),
          ShowMessage("title_escaped", "msg_escaped", "hint_game_cleared"),
          SetState("gameComplete", TRUE)>>)

ObjectIds == {"trash_bin", "plant", "desk_drawer", "safe", "door"}

\* ClueSystem.sceneObjects after initGameData: object id -> interactions
sceneObjects ==
    [o \in ObjectIds |->
        CASE o = "trash_bin" -> <<trashInteraction>>
          [] o = "plant" -> <<plantInteraction>>
          [] o = "desk_drawer" -> <<drawerInteraction>>
          [] o = "safe" -> <<safeInteraction>>
          [] o = "door" -> <<doorInteraction>>]

InteractionIds == {sceneObjects[o][1].id : o \in ObjectIds}

----------------------------------------------------------------------------
(* ClueSystem.executeAction, one operator per case of the switch.  sys is  *)
(* the part of the run an action can change: [items, states].  Each gives  *)
(* [out, sys].                                                             *)

Sys(inv, st) == [items |-> inv, states |-> st]

\* case 'show_message': { success: true, type, ...payload }
showMessage(action, sys) ==
    [out |-> [Typed("show_message") EXCEPT !.title = action.payload.title,
                                           !.message = action.payload.message,
                                           !.hint = action.payload.hint],
     sys |-> sys]

\* give_item without the hasItem test of line 547
giveItem_noOwnedTest(action, sys) ==
    LET id == action.payload.itemId
    IN  IF id \notin DOMAIN Catalog
        THEN [out |-> Fail("error_item_missing"), sys |-> sys]
        ELSE LET added == addItem(sys.items, clone(Catalog[id]))
             IN  IF added.ok
                 THEN [out |-> [Typed("item_received") EXCEPT !.item = id],
                       sys |-> [sys EXCEPT !.items = added.inv]]
                 ELSE [out |-> Fail("cannot_get_item"),
                       sys |-> [sys EXCEPT !.items = added.inv]]

\* case 'give_item'
giveItem(action, sys) ==
    LET id == action.payload.itemId
    IN  IF id \notin DOMAIN Catalog
        THEN [out |-> Fail("error_item_missing"), sys |-> sys]
        ELSE IF hasItem(sys.items, id)
             THEN [out |-> [Typed("item_owned") EXCEPT !.item = id],
                   sys |-> sys]
             ELSE LET added == addItem(sys.items, clone(Catalog[id]))
                  IN  IF added.ok
                      THEN [out |-> [Typed("item_received")
                                        EXCEPT !.item = id],
                            sys |-> [sys EXCEPT !.items = added.inv]]
                      ELSE [out |-> Fail("cannot_get_item"),
                            sys |-> [sys EXCEPT !.items = added.inv]]

\* require_item that is content with any item held
requireItem_anyItem(action, sys) ==
    IF getItemCount(sys.items) > 0
    THEN [out |-> Typed("requirement_met"), sys |-> sys]
    ELSE [out |-> [NoOutcome EXCEPT !.type = "requirement_missing",
                                    !.message = action.payload.failMessage,
                                    !.hint = action.payload.failHint],
          sys |-> sys]

\* require_item that never looks at the inventory
requireItem_alwaysMet(action, sys) ==
    [out |-> Typed("requirement_met"), sys |-> sys]

\* case 'require_item'
requireItem(action, sys) ==
    IF hasItem(sys.items, action.payload.itemId)
    THEN [out |-> Typed("requirement_met"), sys |-> sys]
    ELSE [out |-> [NoOutcome EXCEPT !.type = "requirement_missing",
                                    !.message = action.payload.failMessage,
                                    !.hint = action.payload.failHint],
          sys |-> sys]

\* case 'consume_item'
consumeItem(action, sys) ==
    LET removed == removeItem(sys.items, action.payload.itemId)
    IN  IF removed.ok
        THEN [out |-> Typed("item_consumed"),
              sys |-> [sys EXCEPT !.items = removed.inv]]
        ELSE [out |-> Fail("cannot_consume_item"),
              sys |-> [sys EXCEPT !.items = removed.inv]]

\* case 'check_password': hands the payload back, touches nothing
checkPassword(action, sys) ==
    [out |-> [Typed("password_required") EXCEPT !.payload = <<action.payload>>],
     sys |-> sys]

\* case 'set_state': gameState.set(key, value)
setState(action, sys) ==
    [out |-> Typed("state_set"),
     sys |-> [sys EXCEPT !.states =
                 MapSet(@, action.payload.key, action.payload.value)]]

\* ClueSystem.executeAction
executeAction(action, sys) ==
    CASE action.type = "show_message" -> showMessage(action, sys)
      [] action.type = "give_item" -> giveItem(action, sys)
      [] action.type = "require_item" -> requireItem(action, sys)
      [] action.type = "consume_item" -> consumeItem(action, sys)
      [] action.type = "check_password" -> checkPassword(action, sys)
      [] action.type = "set_state" -> setState(action, sys)
      [] OTHER -> [out |-> Fail("unknown_action"), sys |-> sys]

\* The for loop of executeActions from position i on; tr collects the
\* outcome of every action it runs.  Gives [out, sys, trace].
RECURSIVE actionLoop(_, _, _, _)
actionLoop(actions, i, sys, tr) ==
    IF i > Len(actions)
    THEN [out |-> [Fail("operation_done") EXCEPT !.success = TRUE],
          sys |-> sys, trace |-> tr]
    ELSE LET r == executeAction(actions[i], sys)
         IN  IF ~r.out.success
             THEN [out |-> r.out, sys |-> r.sys, trace |-> Append(tr, r.out)]
             ELSE actionLoop(actions, i + 1, r.sys, Append(tr, r.out))

\* executeActions that undoes the list's changes when an action fails
executeActions_transactional(actions, sys) ==
    LET r == actionLoop(actions, 1, sys, <<>>)
    IN  IF r.out.success THEN r ELSE [r EXCEPT !.sys = sys]

\* ClueSystem.executeActions
executeActions(actions, sys) == actionLoop(actions, 1, sys, <<>>)

\* interact that runs an interaction once only
interact_onceOnly(objectId, objects, sys, exec) ==
    IF objectId \notin DOMAIN objects
    THEN [out |-> Fail("error_object_missing"), sys |-> sys,
          executed |-> exec, trace |-> <<>>]
    ELSE IF Len(objects[objectId]) = 0
    THEN [out |-> Fail("nothing_special"), sys |-> sys,
          executed |-> exec, trace |-> <<>>]
    ELSE LET interaction == objects[objectId][1]
         IN  IF \/ ~canExecute(interaction, sys.items, sys.states)
                \/ exec[interaction.id]
             THEN [out |-> Fail("cannot_do_now"), sys |-> sys,
                   executed |-> exec, trace |-> <<>>]
             ELSE LET r == executeActions(interaction.actions, sys)
                  IN  [out |-> r.out, sys |-> r.sys,
                       executed |-> IF r.out.success
                                    THEN [exec EXCEPT ![interaction.id] = TRUE]
                                    ELSE exec,
                       trace |-> r.trace]

\* interact that takes an object without interactions for done
interact_bareObjectDone(objectId, objects, sys, exec) ==
    IF objectId \notin DOMAIN objects
    THEN [out |-> Fail("error_object_missing"), sys |-> sys,
          executed |-> exec, trace |-> <<>>]
    ELSE IF Len(objects[objectId]) = 0
    THEN [out |-> executeActions(<<>>, sys).out, sys |-> sys,
          executed |-> exec, trace |-> <<>>]
    ELSE LET interaction == objects[objectId][1]
         IN  IF ~canExecute(interaction, sys.items, sys.states)
             THEN [out |-> Fail("cannot_do_now"), sys |-> sys,
                   executed |-> exec, trace |-> <<>>]
             ELSE LET r == executeActions(interaction.actions, sys)
                  IN  [out |-> r.out, sys |-> r.sys,
                       executed |-> IF r.out.success
                                    THEN [exec EXCEPT ![interaction.id] = TRUE]
                                    ELSE exec,
                       trace |-> r.trace]

\* ClueSystem.interact on the scene objects: [out, sys, executed, trace]
interact(objectId, objects, sys, exec) ==
    IF objectId \notin DOMAIN objects
    THEN [out |-> Fail("error_object_missing"), sys |-> sys,
          executed |-> exec, trace |-> <<>>]
    ELSE IF Len(objects[objectId]) = 0
    THEN [out |-> Fail("nothing_special"), sys |-> sys,
          executed |-> exec, trace |-> <<>>]
    ELSE LET interaction == objects[objectId][1]
         IN  IF ~canExecute(interaction, sys.items, sys.states)
             THEN [out |-> Fail("cannot_do_now"), sys |-> sys,
                   executed |-> exec, trace |-> <<>>]
             ELSE LET r == executeActions(interaction.actions, sys)
                  IN  [out |-> r.out, sys |-> r.sys,
                       executed |-> IF r.out.success
                                    THEN [exec EXCEPT ![interaction.id] = TRUE]
                                    ELSE exec,
                       trace |-> r.trace]

\* ClueSystem.submitPassword: [out, lock, states, flags]
submitPassword(lock, st, fl) ==
    LET r == PasswordSystem_submitPassword(lock)
    IN  IF r.out.success
        THEN [out |-> r.out, lock |-> r.lock,
              states |-> MapSet(st, "safePasswordKnown", TRUE),
              flags |-> MapSet(fl, "safeOpened", TRUE)]
        ELSE [out |-> r.out, lock |-> r.lock, states |-> st, flags |-> fl]

\* ClueSystem.isGameComplete
isGameComplete(st) == get(st, "gameComplete")

----------------------------------------------------------------------------
(* Inputs *)

\* object ids a caller passes to interact; "window" is in no scene
ObjectInputs == ObjectIds \cup {"window"}

\* objects a caller puts into the scene without giving them an interaction
BareObjects == {"shelf"}
SceneInputs == ObjectInputs \cup BareObjects

\* the characters of the code, entered one at a time
CodeDigits == {"9", "4", "2", "7"}

\* strings a caller passes to enterPasswordDigit(digit)
DigitInputs == CodeDigits \cup {"1", "12"}

\* items that are not in the catalog, to fill the inventory with:
\* new Item(id, name, description, icon)
FillerId(k) == "filler_" \o ToString(k)
Filler(k) == Item(FillerId(k), TRUE, FALSE)

\* as many fillers as leave room for the catalog items and no more
BulkFill == maxSlots - Cardinality(ItemIds)

\* single actions handed to executeAction
DirectActions ==
    {GiveItem(id) : id \in ItemIds} \cup {ConsumeItem(id) : id \in ItemIds}

\* longest action list handed to executeActions
MaxListLen == 2

\* actions of the content, as building blocks of action lists
ListActions ==
    {GiveItem("crumpled_paper"),
     ConsumeItem("small_key"),
     RequireItem("golden_key", "need_golden_key", "hint_door_locked"),
     SetState("gameComplete", TRUE)}

RECURSIVE ListsOfLen(_)
ListsOfLen(n) ==
    IF n = 0 THEN {<<>>}
    ELSE {Append(l, a) : l \in ListsOfLen(n - 1), a \in ListActions}

ActionLists == UNION {ListsOfLen(n) : n \in 1..MaxListLen}

\* the calls of a run that should win the game
WinSequence ==
    <<[op |-> "interact", arg |-> "plant"],
      [op |-> "interact", arg |-> "desk_drawer"],
      [op |-> "interact", arg |-> "trash_bin"],
      [op |-> "interact", arg |-> "safe"],
      [op |-> "enterPasswordDigit", arg |-> "9"],
      [op |-> "enterPasswordDigit", arg |-> "4"],
      [op |-> "enterPasswordDigit", arg |-> "2"],
      [op |-> "enterPasswordDigit", arg |-> "7"],
      [op |-> "submitPassword", arg |-> ""],
      [op |-> "interact", arg |-> "door"]>>

----------------------------------------------------------------------------
(* State *)

CurrentLock == Lock(enteredPassword, attemptsLeft, locked)
CurrentSys == Sys(items, states)

\* new ClueSystem()
Init ==
    /\ items = EmptyMap
    /\ states = EmptyMap
    /\ flags = EmptyMap
    /\ enteredPassword = ""
    /\ attemptsLeft = maxAttempts
    /\ locked = FALSE
    /\ executed = [i \in InteractionIds |-> FALSE]
    /\ scene = sceneObjects
    /\ result = NoOutcome
    /\ last = [op |-> "new", arg |-> "", actions |-> <<>>]
    /\ trace = <<>>
    /\ wrongStreak = 0
    /\ before = [attempts |-> maxAttempts, locked |-> FALSE]
    /\ walk = 0

\* what a call leaves in the history variables
Called(op, arg, actions, out, tr) ==
    /\ result' = out
    /\ last' = [op |-> op, arg |-> arg, actions |-> actions]
    /\ trace' = tr
    /\ before' = [attempts |-> attemptsLeft, locked |-> locked]
    /\ walk' = IF walk >= 0 /\ walk < Len(WinSequence)
                  /\ WinSequence[walk + 1] = [op |-> op, arg |-> arg]
               THEN walk + 1
               ELSE -1

SetLock(lock) ==
    /\ enteredPassword' = lock.entered
    /\ attemptsLeft' = lock.attempts
    /\ locked' = lock.locked

----------------------------------------------------------------------------
(* Calls *)

\* system.interact(objectId)
Interact(objectId) ==
    LET r == interact(objectId, scene, CurrentSys, executed)
    IN  /\ items' = r.sys.items
        /\ states' = r.sys.states
        /\ executed' = r.executed
        /\ Called("interact", objectId, <<>>, r.out, r.trace)
        /\ UNCHANGED <<scene, flags, lockVars, wrongStreak>>

\* system.executeActions(actions)
ExecuteActions(actions) ==
    LET r == executeActions(actions, CurrentSys)
    IN  /\ items' = r.sys.items
        /\ states' = r.sys.states
        /\ Called("executeActions", "", actions, r.out, r.trace)
        /\ UNCHANGED <<scene, flags, lockVars, executed, wrongStreak>>

\* system.enterPasswordDigit(digit)
EnterPasswordDigit(digit) ==
    LET r == enterDigit(CurrentLock, digit)
    IN  /\ SetLock(r.lock)
        /\ Called("enterPasswordDigit", digit, <<>>, r.out, <<>>)
        /\ UNCHANGED <<scene, storeVars, executed, wrongStreak>>

\* system.submitPassword()
SubmitPassword ==
    LET r == submitPassword(CurrentLock, states, flags)
    IN  /\ SetLock(r.lock)
        /\ states' = r.states
        /\ flags' = r.flags
        /\ Called("submitPassword", "", <<>>, r.out, <<>>)
        /\ wrongStreak' = IF r.out.success THEN 0
                          ELSE IF wrongStreak < maxAttempts
                               THEN wrongStreak + 1
                               ELSE wrongStreak
        /\ UNCHANGED <<scene, items, executed>>

\* system.passwordSystem.reset()
Reset ==
    /\ SetLock(reset(CurrentLock))
    /\ Called("reset", "", <<>>, NoOutcome, <<>>)
    /\ wrongStreak' = 0
    /\ UNCHANGED <<scene, storeVars, executed>>

\* system.inventory.addItem(system.items[itemId].clone())
AddItem(itemId) ==
    LET r == addItem(items, clone(Catalog[itemId]))
    IN  /\ items' = r.inv
        /\ Called("addItem", itemId, <<>>,
                  [NoOutcome EXCEPT !.success = r.ok], <<>>)
        /\ UNCHANGED <<scene, states, flags, lockVars, executed, wrongStreak>>

\* system.inventory.removeItem(itemId)
RemoveItem(itemId) ==
    LET r == removeItem(items, itemId)
    IN  /\ items' = r.inv
        /\ Called("removeItem", itemId, <<>>,
                  [NoOutcome EXCEPT !.success = r.ok], <<>>)
        /\ UNCHANGED <<scene, states, flags, lockVars, executed, wrongStreak>>

\* the fillers held, which are filler_1 .. filler_NumFillers
NumFillers == Cardinality(DOMAIN items \ ItemIds)

\* the filler a caller may take out again: the last one added past BulkFill
TopFiller == IF NumFillers > BulkFill THEN {FillerId(NumFillers)} ELSE {}

\* for (k = from; k <= to; k++) inventory.addItem(new Item('filler_k', ...))
RECURSIVE fillLoop(_, _, _)
fillLoop(inv, from, to) ==
    IF from > to THEN [ok |-> TRUE, inv |-> inv]
    ELSE LET r == addItem(inv, Filler(from))
         IN  IF from = to THEN r ELSE fillLoop(r.inv, from + 1, to)

\* the inventory of a fresh run filled with BulkFill fillers
FillBag ==
    /\ NumFillers = 0
    /\ LET r == fillLoop(items, 1, BulkFill)
       IN  /\ items' = r.inv
           /\ Called("fillBag", "", <<>>,
                     [NoOutcome EXCEPT !.success = r.ok], <<>>)
    /\ UNCHANGED <<scene, states, flags, lockVars, executed, wrongStreak>>

\* system.inventory.addItem(new Item('filler_k', ...)), one more filler
AddFiller ==
    /\ NumFillers >= BulkFill
    /\ LET r == addItem(items, Filler(NumFillers + 1))
       IN  /\ items' = r.inv
           /\ Called("addItem", FillerId(NumFillers + 1), <<>>,
                     [NoOutcome EXCEPT !.success = r.ok], <<>>)
    /\ UNCHANGED <<scene, states, flags, lockVars, executed, wrongStreak>>

\* system.executeAction(action)
ExecuteAction(action) ==
    LET r == executeAction(action, CurrentSys)
    IN  /\ items' = r.sys.items
        /\ states' = r.sys.states
        /\ Called("executeAction", "", <<action>>, r.out, <<r.out>>)
        /\ UNCHANGED <<scene, flags, lockVars, executed, wrongStreak>>

\* system.sceneObjects.set(objectId, new SceneObject(objectId, ...)): the
\* object has no interaction
AddSceneObject(objectId) ==
    /\ scene' = MapSet(scene, objectId, <<>>)
    /\ Called("addSceneObject", objectId, <<>>, NoOutcome, <<>>)
    /\ UNCHANGED <<storeVars, lockVars, executed, wrongStreak>>

\* system.inventory.clear()
Clear ==
    /\ items' = EmptyMap
    /\ Called("clear", "", <<>>, NoOutcome, <<>>)
    /\ UNCHANGED <<scene, states, flags, lockVars, executed, wrongStreak>>

----------------------------------------------------------------------------
(* Specifications *)

\* a test harness: interactions, with the inventory set up by hand
Next ==
    \/ \E o \in ObjectInputs : Interact(o)
    \/ \E a \in DirectActions : ExecuteAction(a)
    \/ \E id \in ItemIds : AddItem(id)
    \/ \E id \in ItemIds \cup TopFiller : RemoveItem(id)
    \/ FillBag
    \/ AddFiller
    \/ Clear

Spec == Init /\ [][Next]_vars

\* the engine's public operations alone
NextEngine ==
    \/ \E o \in ObjectInputs : Interact(o)
    \/ \E d \in CodeDigits : EnterPasswordDigit(d)
    \/ SubmitPassword

SpecEngine == Init /\ [][NextEngine]_vars

\* the combination lock
NextLock ==
    \/ \E d \in DigitInputs : EnterPasswordDigit(d)
    \/ SubmitPassword
    \/ Reset

SpecLock == Init /\ [][NextLock]_vars

\* action lists run directly, next to the interactions of the content
NextActions ==
    \/ \E o \in ObjectInputs : Interact(o)
    \/ \E l \in ActionLists : ExecuteActions(l)

SpecActions == Init /\ [][NextActions]_vars

\* a scene that a caller extends with objects of its own
NextScene ==
    \/ \E o \in SceneInputs : Interact(o)
    \/ \E o \in BareObjects : AddSceneObject(o)
    \/ \E id \in ItemIds : AddItem(id)
    \/ \E id \in ItemIds : RemoveItem(id)

SpecScene == Init /\ [][NextScene]_vars

----------------------------------------------------------------------------
(* Combination lock: lockout *)

\* a call on a locked lock is refused and changes nothing
LockedCallRefused ==
    (locked /\ last'.op \in {"enterPasswordDigit", "submitPassword"})
        => /\ result' = Fail("lock_locked")
           /\ UNCHANGED <<lockVars, storeVars, executed>>

\* only reset() leaves the locked state
LockedUntilReset == (locked /\ last'.op # "reset") => locked'

\* C1: from a fresh or reset lock, maxAttempts (3) submissions in a row
\* that do not match the code leave the lock locked; while it is locked
\* every enterDigit and every submit is refused with the locked outcome and
\* changes nothing, and the lock stays locked until reset() is called.
C1_Lockout ==
    /\ [](wrongStreak >= maxAttempts => locked)
    /\ [][LockedCallRefused /\ LockedUntilReset]_vars

\* a digit was refused on a lock that three wrong submissions locked
C1_Witness ==
    /\ locked
    /\ wrongStreak = maxAttempts
    /\ last.op = "enterPasswordDigit"
    /\ result = Fail("lock_locked")

\* C10: the entered string is never longer than the expected code,
\* whatever strings enterPasswordDigit is given.
C10_EnteredWithinLength == Len(enteredPassword) <= Len(correctPassword)

----------------------------------------------------------------------------
(* The safe: submitPassword and the nested successActions *)

\* C2: a submitPassword() that reports success has run the safe's
\* successActions: the inventory holds golden_key and the safeOpened flag
\* is set.
C2_SubmitRunsSuccessActions ==
    (last.op = "submitPassword" /\ result.success)
        => /\ hasItem(items, "golden_key")
           /\ hasFlag(flags, "safeOpened")

\* C3: after the calls of WinSequence (plant, desk_drawer, trash_bin, safe,
\* 9, 4, 2, 7, submit, door) on a fresh run, isGameComplete() is true.
C3_WinSequenceWins ==
    walk = Len(WinSequence) => isGameComplete(states)

----------------------------------------------------------------------------
(* interact: what it returns and what it changes *)

\* the last call was interact(objectId) on an object of the scene
Interacted(objectId) == last.op = "interact" /\ last.arg = objectId

\* the last call ran the whole action list of its interaction with success
RanWholeList ==
    /\ last.op = "interact"
    /\ last.arg \in ObjectIds
    /\ Len(trace) = Len(sceneObjects[last.arg][1].actions)
    /\ \A i \in 1..Len(trace) : trace[i].success

\* C4: an interact whose conditions hold and whose actions all succeed
\* sets executed and returns the outcome of the last action of the list.
C4_ReturnsLastOutcome ==
    RanWholeList
        => /\ executed[sceneObjects[last.arg][1].id]
           /\ result = trace[Len(trace)]

\* a run just constructed, with one item granted by hand
FreshWith(itemId) ==
    /\ DOMAIN items = {itemId}
    /\ states = EmptyMap
    /\ flags = EmptyMap
    /\ CurrentLock = Lock("", maxAttempts, FALSE)
    /\ \A i \in InteractionIds : ~executed[i]

\* C5: on a fresh run holding small_key, interact("desk_drawer") returns an
\* item_received outcome for diary; afterwards small_key is gone and diary
\* is held.
C5_DrawerWithKey ==
    [][(FreshWith("small_key") /\ Interacted("desk_drawer")')
        => /\ result'.type = "item_received"
           /\ result'.item = "diary"
           /\ ~hasItem(items', "small_key")
           /\ hasItem(items', "diary")]_vars

\* C6: on a fresh run holding golden_key, interact("door") returns a
\* successful show_message outcome with the escape title; afterwards
\* isGameComplete() is true.
C6_DoorWithKey ==
    [][(FreshWith("golden_key") /\ Interacted("door")')
        => /\ result'.success
           /\ result'.type = "show_message"
           /\ result'.title = "title_escaped"
           /\ isGameComplete(states')]_vars

\* interact(objectId) without the key it requires
MissingKeyRefused(objectId, itemId, failMessage) ==
    (~hasItem(items, itemId) /\ Interacted(objectId)')
        => /\ ~result'.success
           /\ result'.type = "requirement_missing"
           /\ result'.message = failMessage
           /\ UNCHANGED <<storeVars, lockVars, executed>>

\* C7: without small_key interact("desk_drawer"), and without golden_key
\* interact("door"), fail with a requirement_missing outcome carrying the
\* content's fail message and change neither inventory, states, flags, the
\* lock nor any executed flag.
C7_MissingKey ==
    [][/\ MissingKeyRefused("desk_drawer", "small_key", "need_small_key")
       /\ MissingKeyRefused("door", "golden_key", "need_golden_key")]_vars

\* the door was tried without golden_key while other items were held
C7_Witness ==
    /\ Interacted("door")
    /\ result.type = "requirement_missing"
    /\ ~hasItem(items, "golden_key")
    /\ hasItem(items, "small_key")

\* C9: interact("plant") while small_key is held (its condition
\* no_item(small_key) fails) returns the failed "cannot do this now"
\* outcome, runs no action, and changes neither executed, inventory,
\* states, flags nor the lock.
C9_ConditionUnmet ==
    [][(hasItem(items, "small_key") /\ Interacted("plant")')
        => /\ result' = Fail("cannot_do_now")
           /\ trace' = <<>>
           /\ UNCHANGED <<storeVars, lockVars, executed>>]_vars

\* the plant was tried with small_key in the inventory
C9_Witness ==
    /\ Interacted("plant")
    /\ result = Fail("cannot_do_now")
    /\ hasItem(items, "small_key")

----------------------------------------------------------------------------
(* Action lists: order, first failure, no rollback *)

\* sys after the first n actions of the list, each applied to what the
\* one before left
RECURSIVE AfterFirst(_, _, _)
AfterFirst(actions, n, sys) ==
    IF n = 0 THEN sys
    ELSE executeAction(actions[n], AfterFirst(actions, n - 1, sys)).sys

\* what action n of the list returns when its turn comes
OutcomeOf(actions, n, sys) ==
    executeAction(actions[n], AfterFirst(actions, n - 1, sys)).out

\* the position of the first action of the list to fail, 0 when none does
FirstFailure(actions, sys) ==
    LET failing == {n \in 1..Len(actions) : ~OutcomeOf(actions, n, sys).success}
    IN  IF failing = {} THEN 0
        ELSE CHOOSE n \in failing : \A m \in failing : n <= m

\* the action list the call l runs: that of the object's first interaction,
\* or the one handed to executeActions
ListOf(l) ==
    IF l.op = "interact" THEN sceneObjects[l.arg][1].actions ELSE l.actions

\* the call l gets as far as running an action list
RunsList(l) ==
    \/ l.op = "executeActions"
    \/ /\ l.op = "interact"
       /\ l.arg \in ObjectIds
       /\ canExecute(sceneObjects[l.arg][1], items, states)

\* a step that runs a list whose action N is the first to fail
StopsAtFirstFailure ==
    LET actions == ListOf(last')
        N == FirstFailure(actions, CurrentSys)
    IN  (RunsList(last') /\ N > 0)
            => /\ Len(trace') = N
               /\ result' = OutcomeOf(actions, N, CurrentSys)
               /\ ~result'.success
               /\ Sys(items', states') = AfterFirst(actions, N - 1, CurrentSys)
               /\ executed' = executed

\* C8: when action N of a list is the first to fail, exactly N actions have
\* been run, the call returns action N's failure outcome, no executed flag
\* is set, and inventory and states are what actions 1..N-1 left them.
C8_NonTransactional == [][StopsAtFirstFailure]_vars

\* a list failed at its second action and the item its first action
\* granted is still held
C8_Witness ==
    /\ last.op = "executeActions"
    /\ ~result.success
    /\ Len(trace) = 2
    /\ trace[1].type = "item_received"
    /\ hasItem(items, trace[1].item)

----------------------------------------------------------------------------
(* Combination lock: submit, full entry, reset *)

\* the step is a call of op
Calls(op) == last'.op = op

\* C11: on an unlocked lock a submit() of anything but the code (a wrong
\* full code, a partial entry, nothing) fails, takes exactly one from
\* attemptsLeft and clears the entered digits, so that the display is
\* empty; the outcome carries locked = true exactly when attemptsLeft
\* reached 0.
C11_WrongSubmit ==
    [][(~locked /\ enteredPassword # correctPassword /\ Calls("submitPassword"))
        => /\ ~result'.success
           /\ attemptsLeft' = attemptsLeft - 1
           /\ enteredPassword' = ""
           /\ getDisplay(Lock(enteredPassword', attemptsLeft', locked')) = <<>>
           /\ result'.locked <=> (attemptsLeft' = 0)]_vars

\* the first wrong submission of a fresh lock: 3 attempts became 2
C11_Witness ==
    /\ last.op = "submitPassword"
    /\ ~result.success
    /\ ~result.locked
    /\ before = [attempts |-> maxAttempts, locked |-> FALSE]
    /\ attemptsLeft = maxAttempts - 1
    /\ enteredPassword = ""

\* C12: on an unlocked lock a submit() of the code succeeds and puts
\* entered back to empty and attemptsLeft back to maxAttempts, however many
\* wrong submissions came before; the lock stays usable, and an unlocked
\* lock has lost one attempt for each failed submission since the last
\* success or reset, and for no earlier one.
C12_RightSubmit ==
    /\ [](~locked => attemptsLeft = maxAttempts - wrongStreak)
    /\ [][(~locked /\ enteredPassword = correctPassword
                   /\ Calls("submitPassword"))
            => /\ result'.success
               /\ enteredPassword' = ""
               /\ attemptsLeft' = maxAttempts
               /\ ~locked']_vars

\* the code was accepted on the last attempt left
C12_Witness ==
    /\ last.op = "submitPassword"
    /\ result.success
    /\ before = [attempts |-> 1, locked |-> FALSE]
    /\ attemptsLeft = maxAttempts
    /\ ~locked

\* C13: enterDigit on an unlocked lock that already holds as many
\* characters as the code has is refused with the "full" outcome and
\* leaves entered, attemptsLeft and locked alone.
C13_FullRefused ==
    [][(~locked /\ Len(enteredPassword) = Len(correctPassword)
                /\ Calls("enterPasswordDigit"))
        => /\ result' = Fail("password_full")
           /\ UNCHANGED lockVars]_vars

\* a fifth digit was refused
C13_Witness ==
    /\ last.op = "enterPasswordDigit"
    /\ result = Fail("password_full")
    /\ Len(enteredPassword) = Len(correctPassword)

\* C19: reset() works in every lock state, the locked one included, and
\* leaves the lock as constructed; the enterDigit or submit that follows
\* is not refused as locked.
C19_ResetAlways ==
    [][/\ Calls("reset")
            => /\ enteredPassword' = ""
               /\ attemptsLeft' = maxAttempts
               /\ ~locked'
       /\ (last.op = "reset" /\ Calls("enterPasswordDigit"))
            => result'.success
       /\ (last.op = "reset" /\ Calls("submitPassword"))
            => result' = Fail(WrongMessage(maxAttempts - 1))]_vars

\* a locked lock was reset
C19_Witness ==
    /\ last.op = "reset"
    /\ before.locked
    /\ ~locked
    /\ attemptsLeft = maxAttempts
    /\ enteredPassword = ""

----------------------------------------------------------------------------
(* Inventory: grant, duplicate grant, consume, capacity *)

\* the call l grants an item: the give_item action, or addItem of a clone
IsGiveItem(l) == l.op = "executeAction" /\ l.actions[1].type = "give_item"
IsGrant(l) == l.op = "addItem" \/ IsGiveItem(l)
GrantedId(l) == IF l.op = "addItem" THEN l.arg ELSE l.actions[1].payload.itemId

\* every item held before the step is held unchanged after it
OthersKept ==
    \A k \in DOMAIN items : hasItem(items', k) /\ items'[k] = items[k]

\* C14: granting a catalog item that is not held, while the inventory is
\* below capacity, succeeds; the item is then held, the count is one more
\* than before and every other held item is unchanged.
C14_GrantAdds ==
    [][(/\ IsGrant(last')
        /\ GrantedId(last') \in ItemIds
        /\ ~hasItem(items, GrantedId(last'))
        /\ getItemCount(items) < maxSlots)
        => /\ result'.success
           /\ hasItem(items', GrantedId(last'))
           /\ items'[GrantedId(last')] = Catalog[GrantedId(last')]
           /\ getItemCount(items') = getItemCount(items) + 1
           /\ OthersKept]_vars

\* give_item put a catalog item into the last free slot
C14_Witness ==
    /\ IsGiveItem(last)
    /\ result.type = "item_received"
    /\ hasItem(items, result.item)
    /\ getItemCount(items) = maxSlots


\* C15: granting an item whose id is already held changes nothing and is
\* no error: give_item returns the successful item_owned outcome and leaves
\* the inventory as it was, for consumable and other items alike and also
\* at capacity; addItem of a held id leaves the held ids and the count
\* as they were.
C15_GrantHeld ==
    [][(/\ IsGrant(last')
        /\ GrantedId(last') \in ItemIds
        /\ hasItem(items, GrantedId(last')))
        => /\ DOMAIN items' = DOMAIN items
           /\ getItemCount(items') = getItemCount(items)
           /\ IsGiveItem(last')
                => /\ result' = [Typed("item_owned")
                                    EXCEPT !.item = GrantedId(last')]
                   /\ items' = items]_vars

\* give_item of a held item on a full inventory
C15_Witness ==
    /\ IsGiveItem(last)
    /\ result.type = "item_owned"
    /\ hasItem(items, result.item)
    /\ getItemCount(items) = maxSlots


\* the call l consumes an item: the consume_item action, or removeItem
IsConsumeItem(l) ==
    l.op = "executeAction" /\ l.actions[1].type = "consume_item"
IsConsume(l) == l.op = "removeItem" \/ IsConsumeItem(l)
ConsumedId(l) ==
    IF l.op = "removeItem" THEN l.arg ELSE l.actions[1].payload.itemId

\* C16: consuming a held item removes it: it is no longer held and the
\* count is one less; consuming an item that is not held reports that
\* nothing was removed (the consume_item action fails) and leaves the
\* inventory as it was.
C16_Consume ==
    [][IsConsume(last')
        => IF hasItem(items, ConsumedId(last'))
           THEN /\ result'.success
                /\ ~hasItem(items', ConsumedId(last'))
                /\ getItemCount(items') = getItemCount(items) - 1
                /\ items' = MapDelete(items, ConsumedId(last'))
           ELSE /\ ~result'.success
                /\ items' = items
                /\ IsConsumeItem(last')
                     => result' = Fail("cannot_consume_item")]_vars

\* consume_item took an item out of a full inventory
C16_Witness ==
    /\ IsConsumeItem(last)
    /\ result.type = "item_consumed"
    /\ ~hasItem(items, last.actions[1].payload.itemId)
    /\ getItemCount(items) = maxSlots - 1

\* consume_item failed on an item that is not held
C16_WitnessAbsent ==
    /\ IsConsumeItem(last)
    /\ result = Fail("cannot_consume_item")
    /\ getItemCount(items) > 0


\* what interact("safe") does hold to: it succeeds, its one action yields
\* the password_required outcome with the payload, and nothing but the
\* executed flag of safe_open changes
SafeFirstPhase ==
    [][Interacted("safe")'
        => /\ result'.success
           /\ trace' = <<[Typed("password_required")
                            EXCEPT !.payload = <<safeInteraction.actions[1].payload>>]>>
           /\ executed' = [executed EXCEPT !["safe_open"] = TRUE]
           /\ UNCHANGED <<storeVars, lockVars>>]_vars

\* C17: interact("safe") succeeds in every state, changes neither the
\* inventory, states, flags nor the lock, and returns an outcome of type
\* password_required that carries the expected code and the nested success
\* action list.
C17_SafePasswordRequired ==
    [][Interacted("safe")'
        => /\ result'.success
           /\ UNCHANGED <<storeVars, lockVars>>
           /\ result'.type = "password_required"
           /\ Len(result'.payload) = 1
           /\ result'.payload[1].correctPassword = correctPassword
           /\ result'.payload[1].successActions = safeSuccessActions]_vars


\* C18: whatever sequence of addItem, removeItem, clear and interact has
\* run, the inventory holds at most one item per id (the item stored under
\* an id is the item of that id) and no more than maxSlots items.
C18_InventoryInvariant ==
    /\ getItemCount(items) <= maxSlots
    /\ \A k \in DOMAIN items : items[k].id = k

\* addItem of an item that is not held was refused by a full inventory
C18_Witness ==
    /\ last.op = "addItem"
    /\ ~result.success
    /\ ~hasItem(items, last.arg)
    /\ getItemCount(items) = maxSlots


\* C20: interact with an id that is not in the scene, or with an object
\* that has no interactions, returns an outcome with success = false and
\* leaves inventory, states, flags, lock and every executed flag unchanged.
C20_NothingToInteract ==
    [][(last'.op = "interact")
        => /\ (last'.arg \notin DOMAIN scene)
                => /\ result' = Fail("error_object_missing")
                   /\ UNCHANGED <<storeVars, lockVars, executed, scene>>
           /\ (last'.arg \in DOMAIN scene /\ Len(scene[last'.arg]) = 0)
                => /\ result' = Fail("nothing_special")
                   /\ UNCHANGED <<storeVars, lockVars, executed, scene>>]_vars

\* interact on an object without interactions, with items held and
\* interactions executed
C20_Witness ==
    /\ last.op = "interact"
    /\ last.arg \in DOMAIN scene
    /\ Len(scene[last.arg]) = 0
    /\ ~result.success
    /\ getItemCount(items) > 0
    /\ \E i \in InteractionIds : executed[i]

\* interact on an id that is not in the scene, in such a state
C20_WitnessUnknown ==
    /\ last.op = "interact"
    /\ last.arg \notin DOMAIN scene
    /\ ~result.success
    /\ getItemCount(items) > 0
    /\ \E i \in InteractionIds : executed[i]


----------------------------------------------------------------------------
(* Combination lock: the fields agree *)

\* C23: in every state of the lock reached by enterDigit, submit and reset,
\* attemptsLeft lies in 0..maxAttempts, the lock is locked exactly when
\* attemptsLeft is 0, and a locked lock holds no entered characters.
C23_LockFieldsAgree ==
    /\ attemptsLeft \in 0..maxAttempts
    /\ locked <=> (attemptsLeft = 0)
    /\ locked => enteredPassword = ""

\* a wrong submit has just used up the last attempt
C23_Witness ==
    /\ last.op = "submitPassword"
    /\ before = [attempts |-> 1, locked |-> FALSE]
    /\ result.locked
    /\ locked
    /\ attemptsLeft = 0
    /\ enteredPassword = ""


----------------------------------------------------------------------------
(* Interactions run again *)

\* the interaction of an object of the content
InteractionOf(objectId) == sceneObjects[objectId][1]

\* C21: the executed flag does not gate an interaction: whenever the
\* conditions of an interaction hold, executed or not, interact runs its
\* action list.  So after desk_drawer has consumed small_key, plant grants
\* it again, and desk_drawer consumes it again and leaves one diary.
C21_ExecutedDoesNotGate ==
    [][\A o \in ObjectIds :
         (Interacted(o)' /\ canExecute(InteractionOf(o), items, states))
           => /\ Len(trace') >= 1
              /\ trace' = executeActions(InteractionOf(o).actions,
                                         CurrentSys).trace
              /\ (o = "plant")
                   => /\ result'.success
                      /\ items' = MapSet(items, "small_key",
                                         clone(Catalog["small_key"]))
              /\ (o = "desk_drawer" /\ hasItem(items, "small_key"))
                   => /\ result'.success
                      /\ items' = MapSet(MapDelete(items, "small_key"),
                                         "diary", clone(Catalog["diary"]))
                      /\ getItemCount(items') =
                           IF hasItem(items, "diary")
                           THEN getItemCount(items) - 1
                           ELSE getItemCount(items)]_vars

\* desk_drawer has run a second time: its give_item found the diary held
C21_Witness ==
    /\ Interacted("desk_drawer")
    /\ result.success
    /\ Len(trace) = Len(drawerInteraction.actions)
    /\ trace[3] = [Typed("item_owned") EXCEPT !.item = "diary"]
    /\ executed["plant_check"]
    /\ executed["drawer_open"]
    /\ hasItem(items, "diary")
    /\ ~hasItem(items, "small_key")

\* plant has run again after desk_drawer consumed the key
C21_WitnessPlant ==
    /\ Interacted("plant")
    /\ result.success
    /\ executed["drawer_open"]
    /\ hasItem(items, "small_key")
    /\ hasItem(items, "diary")


----------------------------------------------------------------------------
(* The safe: two phases, and the win *)

\* C22: in a run driven through the public operations, submitPassword
\* reports success, and safeOpened / safePasswordKnown are set, only if
\* interact("safe") has run earlier in the run.
C22_SafeDeclaredFirst ==
    /\ (last.op = "submitPassword" /\ result.success)
         => executed["safe_open"]
    /\ (hasFlag(flags, "safeOpened") \/ get(states, "safePasswordKnown"))
         => executed["safe_open"]


EngineNeverCompletes == ~isGameComplete(states)

====
